---------------------------- MODULE Spec2Model ----------------------------
(***************************************************************************)
(* The MooseFS patch generator for Proxmox VE (src/main.rs).               *)
(*                                                                         *)
(* A text is a sequence of characters, each character a one-character      *)
(* string; a line is a text without its terminator; the empty string is    *)
(* the empty sequence.  main is modelled step by step, one action per      *)
(* external call or file operation, and apply_moosefs_changes as the loop  *)
(* it is: one action for the call, one per iteration, one for the return.  *)
(***************************************************************************)
EXTENDS Integers, Sequences, FiniteSets, TLC

(***************************************************************************)
(* The two text payloads and the two anchors, character for character.     *)
(***************************************************************************)
MOOSEFS_UI_PANEL ==
    <<"E","x","t",".","d","e","f","i","n","e","(","'","P","V","E",".","s","t","o","r","a","g","e",".","M","o","o","s","e","F","S","C","o","n","t","r","o","l","l","e","r","'",","," ","{","\n">> \o
    <<" "," "," "," ","e","x","t","e","n","d",":"," ","'","E","x","t",".","a","p","p",".","V","i","e","w","C","o","n","t","r","o","l","l","e","r","'",",","\n">> \o
    <<" "," "," "," ","a","l","i","a","s",":"," ","'","c","o","n","t","r","o","l","l","e","r",".","p","v","e","-","s","t","o","r","a","g","e","-","m","o","o","s","e","f","s","'","\n">> \o
    <<"}",")",";","\n">> \o
    <<"E","x","t",".","d","e","f","i","n","e","(","'","P","V","E",".","s","t","o","r","a","g","e",".","M","o","o","s","e","F","S","I","n","p","u","t","P","a","n","e","l","'",","," ","{","\n">> \o
    <<" "," "," "," ","e","x","t","e","n","d",":"," ","'","P","V","E",".","p","a","n","e","l",".","S","t","o","r","a","g","e","B","a","s","e","'",",","\n">> \o
    <<"\t","c","o","n","t","r","o","l","l","e","r",":"," ","'","p","v","e","-","s","t","o","r","a","g","e","-","m","o","o","s","e","f","s","'",",","\n">> \o
    <<"\n">> \o
    <<" "," "," "," ","o","n","l","i","n","e","H","e","l","p",":"," ","'","s","t","o","r","a","g","e","_","m","o","o","s","e","f","s","'",",","\n">> \o
    <<"\n">> \o
    <<" "," "," "," ","i","n","i","t","C","o","m","p","o","n","e","n","t",":"," ","f","u","n","c","t","i","o","n","(",")"," ","{","\n">> \o
    <<" "," "," "," "," "," "," "," ","l","e","t"," ","m","e"," ","="," ","t","h","i","s",";","\n">> \o
    <<"\n">> \o
    <<" "," "," "," "," "," "," "," ","m","e",".","c","o","l","u","m","n","1"," ","="," ","[","\n">> \o
    <<" "," "," "," "," "," "," "," "," "," "," "," ","{","\n">> \o
    <<"\t","\t","\t","\t","x","t","y","p","e",":"," ","m","e",".","i","s","C","r","e","a","t","e"," ","?"," ","'","t","e","x","t","f","i","e","l","d","'"," ",":"," ","'","d","i","s","p","l","a","y","f","i","e","l","d","'",",","\n">> \o
    <<" "," "," "," "," "," "," "," "," "," "," "," "," "," "," "," ","n","a","m","e",":"," ","'","p","a","t","h","'",",","\n">> \o
    <<" "," "," "," "," "," "," "," "," "," "," "," "," "," "," "," ","v","a","l","u","e",":"," ","'","'",",","\n">> \o
    <<" "," "," "," "," "," "," "," "," "," "," "," "," "," "," "," ","f","i","e","l","d","L","a","b","e","l",":"," ","g","e","t","t","e","x","t","(","'","M","o","u","n","t"," ","P","o","i","n","t","'",")",",","\n">> \o
    <<" "," "," "," "," "," "," "," "," "," "," "," "," "," "," "," ","a","l","l","o","w","B","l","a","n","k",":"," ","f","a","l","s","e",",","\n">> \o
    <<" "," "," "," "," "," "," "," "," "," "," "," ","}",",","\n">> \o
    <<" "," "," "," "," "," "," "," "," "," "," "," ","{","\n">> \o
    <<" "," "," "," "," "," "," "," "," "," "," "," "," "," "," "," ","x","t","y","p","e",":"," ","'","t","e","x","t","f","i","e","l","d","'",",","\n">> \o
    <<" "," "," "," "," "," "," "," "," "," "," "," "," "," "," "," ","n","a","m","e",":"," ","'","m","f","s","m","a","s","t","e","r","'",",","\n">> \o
    <<" "," "," "," "," "," "," "," "," "," "," "," "," "," "," "," ","v","a","l","u","e",":"," ","'","m","f","s","m","a","s","t","e","r","'",",","\n">> \o
    <<" "," "," "," "," "," "," "," "," "," "," "," "," "," "," "," ","f","i","e","l","d","L","a","b","e","l",":"," ","g","e","t","t","e","x","t","(","'","M","o","o","s","e","F","S"," ","M","a","s","t","e","r","'",")",",","\n">> \o
    <<" "," "," "," "," "," "," "," "," "," "," "," "," "," "," "," ","a","l","l","o","w","B","l","a","n","k",":"," ","t","r","u","e",",","\n">> \o
    <<" "," "," "," "," "," "," "," "," "," "," "," "," "," "," "," ","e","m","p","t","y","T","e","x","t",":"," ","'","m","f","s","m","a","s","t","e","r","'",",","\n">> \o
    <<" "," "," "," "," "," "," "," "," "," "," "," "," "," "," "," ","s","u","b","m","i","t","E","m","p","t","y",":"," ","f","a","l","s","e",",","\n">> \o
    <<" "," "," "," "," "," "," "," "," "," "," "," ","}",",","\n">> \o
    <<" "," "," "," "," "," "," "," "," "," "," "," ","{","\n">> \o
    <<" "," "," "," "," "," "," "," "," "," "," "," "," "," "," "," ","x","t","y","p","e",":"," ","'","n","u","m","b","e","r","f","i","e","l","d","'",",","\n">> \o
    <<" "," "," "," "," "," "," "," "," "," "," "," "," "," "," "," ","n","a","m","e",":"," ","'","m","f","s","p","o","r","t","'",",","\n">> \o
    <<" "," "," "," "," "," "," "," "," "," "," "," "," "," "," "," ","v","a","l","u","e",":"," ","'","9","4","2","1","'",",","\n">> \o
    <<" "," "," "," "," "," "," "," "," "," "," "," "," "," "," "," ","f","i","e","l","d","L","a","b","e","l",":"," ","g","e","t","t","e","x","t","(","'","M","a","s","t","e","r"," ","P","o","r","t","'",")",",","\n">> \o
    <<" "," "," "," "," "," "," "," "," "," "," "," "," "," "," "," ","a","l","l","o","w","B","l","a","n","k",":"," ","t","r","u","e",",","\n">> \o
    <<" "," "," "," "," "," "," "," "," "," "," "," "," "," "," "," ","e","m","p","t","y","T","e","x","t",":"," ","'","9","4","2","1","'",",","\n">> \o
    <<" "," "," "," "," "," "," "," "," "," "," "," "," "," "," "," ","s","u","b","m","i","t","E","m","p","t","y",":"," ","f","a","l","s","e",",","\n">> \o
    <<" "," "," "," "," "," "," "," "," "," "," "," "," "," "," "," ","m","i","n","V","a","l","u","e",":"," ","1",",","\n">> \o
    <<" "," "," "," "," "," "," "," "," "," "," "," "," "," "," "," ","m","a","x","V","a","l","u","e",":"," ","6","5","5","3","5",",","\n">> \o
    <<" "," "," "," "," "," "," "," "," "," "," "," ","}",",","\n">> \o
    <<" "," "," "," "," "," "," "," "," "," "," "," ","{","\n">> \o
    <<" "," "," "," "," "," "," "," "," "," "," "," "," "," "," "," ","x","t","y","p","e",":"," ","'","p","v","e","C","o","n","t","e","n","t","T","y","p","e","S","e","l","e","c","t","o","r","'",",","\n">> \o
    <<" "," "," "," "," "," "," "," "," "," "," "," "," "," "," "," ","n","a","m","e",":"," ","'","c","o","n","t","e","n","t","'",",","\n">> \o
    <<" "," "," "," "," "," "," "," "," "," "," "," "," "," "," "," ","v","a","l","u","e",":"," ","[","'","i","m","a","g","e","s","'",","," ","'","i","s","o","'",","," ","'","v","z","t","m","p","l","'",","," ","'","b","a","c","k","u","p","'",","," ","'","s","n","i","p","p","e","t","s","'",","," ","'","r","o","o","t","d","i","r","'","]",",","\n">> \o
    <<" "," "," "," "," "," "," "," "," "," "," "," "," "," "," "," ","m","u","l","t","i","S","e","l","e","c","t",":"," ","t","r","u","e",",","\n">> \o
    <<" "," "," "," "," "," "," "," "," "," "," "," "," "," "," "," ","f","i","e","l","d","L","a","b","e","l",":"," ","g","e","t","t","e","x","t","(","'","C","o","n","t","e","n","t","'",")",",","\n">> \o
    <<" "," "," "," "," "," "," "," "," "," "," "," "," "," "," "," ","a","l","l","o","w","B","l","a","n","k",":"," ","f","a","l","s","e",",","\n">> \o
    <<" "," "," "," "," "," "," "," "," "," "," "," ","}",",","\n">> \o
    <<" "," "," "," "," "," "," "," ","]",";","\n">> \o
    <<"\n">> \o
    <<" "," "," "," "," "," "," "," ","m","e",".","c","o","l","u","m","n","2"," ","="," ","[","\n">> \o
    <<" "," "," "," "," "," "," "," "," "," "," "," ","{","\n">> \o
    <<" "," "," "," "," "," "," "," "," "," "," "," "," "," "," "," ","x","t","y","p","e",":"," ","'","p","r","o","x","m","o","x","c","h","e","c","k","b","o","x","'",",","\n">> \o
    <<" "," "," "," "," "," "," "," "," "," "," "," "," "," "," "," ","n","a","m","e",":"," ","'","s","h","a","r","e","d","'",",","\n">> \o
    <<" "," "," "," "," "," "," "," "," "," "," "," "," "," "," "," ","c","h","e","c","k","e","d",":"," ","t","r","u","e",",","\n">> \o
    <<" "," "," "," "," "," "," "," "," "," "," "," "," "," "," "," ","u","n","c","h","e","c","k","e","d","V","a","l","u","e",":"," ","0",",","\n">> \o
    <<" "," "," "," "," "," "," "," "," "," "," "," "," "," "," "," ","f","i","e","l","d","L","a","b","e","l",":"," ","g","e","t","t","e","x","t","(","'","S","h","a","r","e","d","'",")",",","\n">> \o
    <<" "," "," "," "," "," "," "," "," "," "," "," ","}",",","\n">> \o
    <<" "," "," "," "," "," "," "," "," "," "," "," ","{","\n">> \o
    <<" "," "," "," "," "," "," "," "," "," "," "," "," "," "," "," ","x","t","y","p","e",":"," ","'","p","r","o","x","m","o","x","c","h","e","c","k","b","o","x","'",",","\n">> \o
    <<" "," "," "," "," "," "," "," "," "," "," "," "," "," "," "," ","n","a","m","e",":"," ","'","m","f","s","b","d","e","v","'",",","\n">> \o
    <<" "," "," "," "," "," "," "," "," "," "," "," "," "," "," "," ","c","h","e","c","k","e","d",":"," ","f","a","l","s","e",",","\n">> \o
    <<" "," "," "," "," "," "," "," "," "," "," "," "," "," "," "," ","u","n","c","h","e","c","k","e","d","V","a","l","u","e",":"," ","0",",","\n">> \o
    <<" "," "," "," "," "," "," "," "," "," "," "," "," "," "," "," ","f","i","e","l","d","L","a","b","e","l",":"," ","g","e","t","t","e","x","t","(","'","U","s","e"," ","B","l","o","c","k"," ","D","e","v","i","c","e","'",")",",","\n">> \o
    <<" "," "," "," "," "," "," "," "," "," "," "," ","}",",","\n">> \o
    <<" "," "," "," "," "," "," "," ","]",";","\n">> \o
    <<"\n">> \o
    <<" "," "," "," "," "," "," "," ","m","e",".","a","d","v","a","n","c","e","d","C","o","l","u","m","n","1"," ","="," ","[","\n">> \o
    <<" "," "," "," "," "," "," "," "," "," "," "," ","{","\n">> \o
    <<" "," "," "," "," "," "," "," "," "," "," "," "," "," "," "," ","x","t","y","p","e",":"," ","'","t","e","x","t","f","i","e","l","d","'",",","\n">> \o
    <<" "," "," "," "," "," "," "," "," "," "," "," "," "," "," "," ","n","a","m","e",":"," ","'","m","f","s","s","u","b","f","o","l","d","e","r","'",",","\n">> \o
    <<" "," "," "," "," "," "," "," "," "," "," "," "," "," "," "," ","f","i","e","l","d","L","a","b","e","l",":"," ","g","e","t","t","e","x","t","(","'","S","u","b","f","o","l","d","e","r","'",")",",","\n">> \o
    <<" "," "," "," "," "," "," "," "," "," "," "," "," "," "," "," ","a","l","l","o","w","B","l","a","n","k",":"," ","t","r","u","e",",","\n">> \o
    <<" "," "," "," "," "," "," "," "," "," "," "," "," "," "," "," ","s","u","b","m","i","t","E","m","p","t","y",":"," ","f","a","l","s","e",",","\n">> \o
    <<" "," "," "," "," "," "," "," "," "," "," "," "," "," "," "," ","e","m","p","t","y","T","e","x","t",":"," ","'","/","'",",","\n">> \o
    <<" "," "," "," "," "," "," "," "," "," "," "," "," "," "," "," ","a","u","t","o","E","l",":"," ","{","\n">> \o
    <<" "," "," "," "," "," "," "," "," "," "," "," "," "," "," "," "," "," "," "," ","t","a","g",":"," ","'","d","i","v","'",",","\n">> \o
    <<" "," "," "," "," "," "," "," "," "," "," "," "," "," "," "," "," "," "," "," ","'","d","a","t","a","-","q","t","i","p","'",":"," ","g","e","t","t","e","x","t","(","'","T","h","e"," ","s","u","b","f","o","l","d","e","r"," ","t","o"," ","m","o","u","n","t","."," ","L","e","a","v","e"," ","e","m","p","t","y"," ","t","o"," ","m","o","u","n","t"," ","t","h","e"," ","r","o","o","t"," ","d","i","r","e","c","t","o","r","y",".","'",")",",","\n">> \o
    <<" "," "," "," "," "," "," "," "," "," "," "," "," "," "," "," ","}",",","\n">> \o
    <<" "," "," "," "," "," "," "," "," "," "," "," ","}",",","\n">> \o
    <<" "," "," "," "," "," "," "," ","]",";","\n">> \o
    <<"\n">> \o
    <<" "," "," "," "," "," "," "," ","m","e",".","a","d","v","a","n","c","e","d","C","o","l","u","m","n","2"," ","="," ","[","\n">> \o
    <<" "," "," "," "," "," "," "," "," "," "," "," ","{","\n">> \o
    <<" "," "," "," "," "," "," "," "," "," "," "," "," "," "," "," ","x","t","y","p","e",":"," ","'","t","e","x","t","f","i","e","l","d","'",",","\n">> \o
    <<" "," "," "," "," "," "," "," "," "," "," "," "," "," "," "," ","n","a","m","e",":"," ","'","m","f","s","p","a","s","s","w","o","r","d","'",",","\n">> \o
    <<" "," "," "," "," "," "," "," "," "," "," "," "," "," "," "," ","f","i","e","l","d","L","a","b","e","l",":"," ","g","e","t","t","e","x","t","(","'","P","a","s","s","w","o","r","d","'",")",",","\n">> \o
    <<" "," "," "," "," "," "," "," "," "," "," "," "," "," "," "," ","a","l","l","o","w","B","l","a","n","k",":"," ","t","r","u","e",",","\n">> \o
    <<" "," "," "," "," "," "," "," "," "," "," "," "," "," "," "," ","s","u","b","m","i","t","E","m","p","t","y",":"," ","f","a","l","s","e",",","\n">> \o
    <<" "," "," "," "," "," "," "," "," "," "," "," "," "," "," "," ","i","n","p","u","t","T","y","p","e",":"," ","'","p","a","s","s","w","o","r","d","'",",","\n">> \o
    <<" "," "," "," "," "," "," "," "," "," "," "," ","}",",","\n">> \o
    <<" "," "," "," "," "," "," "," "," "," "," "," ","{","\n">> \o
    <<" "," "," "," "," "," "," "," "," "," "," "," "," "," "," "," ","x","t","y","p","e",":"," ","'","t","e","x","t","f","i","e","l","d","'",",","\n">> \o
    <<" "," "," "," "," "," "," "," "," "," "," "," "," "," "," "," ","n","a","m","e",":"," ","'","m","f","s","n","b","d","l","i","n","k","'",",","\n">> \o
    <<" "," "," "," "," "," "," "," "," "," "," "," "," "," "," "," ","f","i","e","l","d","L","a","b","e","l",":"," ","g","e","t","t","e","x","t","(","'","N","B","D"," ","S","o","c","k","e","t","'",")",",","\n">> \o
    <<" "," "," "," "," "," "," "," "," "," "," "," "," "," "," "," ","a","l","l","o","w","B","l","a","n","k",":"," ","t","r","u","e",",","\n">> \o
    <<" "," "," "," "," "," "," "," "," "," "," "," "," "," "," "," ","s","u","b","m","i","t","E","m","p","t","y",":"," ","f","a","l","s","e",",","\n">> \o
    <<" "," "," "," "," "," "," "," "," "," "," "," "," "," "," "," ","e","m","p","t","y","T","e","x","t",":"," ","'","/","d","e","v","/","m","f","s","/","n","b","d","s","o","c","k","'",",","\n">> \o
    <<" "," "," "," "," "," "," "," "," "," "," "," ","}",",","\n">> \o
    <<" "," "," "," "," "," "," "," ","]",";","\n">> \o
    <<"\n">> \o
    <<" "," "," "," "," "," "," "," ","m","e",".","c","a","l","l","P","a","r","e","n","t","(",")",";","\n">> \o
    <<" "," "," "," ","}",",","\n">> \o
    <<"}",")",";">>

STORAGE_TYPES_ADDITION ==
    <<" "," "," "," "," "," "," "," "," "," "," "," ","m","o","o","s","e","f","s",":"," ","{","\n">> \o
    <<" "," "," "," "," "," "," "," "," "," "," "," "," "," "," "," ","n","a","m","e",":"," ","'","M","o","o","s","e","F","S","'",",","\n">> \o
    <<" "," "," "," "," "," "," "," "," "," "," "," "," "," "," "," ","i","p","a","n","e","l",":"," ","'","M","o","o","s","e","F","S","I","n","p","u","t","P","a","n","e","l","'",",","\n">> \o
    <<" "," "," "," "," "," "," "," "," "," "," "," "," "," "," "," ","f","a","I","c","o","n",":"," ","'","b","u","i","l","d","i","n","g","'",",","\n">> \o
    <<" "," "," "," "," "," "," "," "," "," "," "," "," "," "," "," ","b","a","c","k","u","p","s",":"," ","t","r","u","e",",","\n">> \o
    <<" "," "," "," "," "," "," "," "," "," "," "," ","}",",">>

CEPHFS_ANCHOR ==
    <<"c","e","p","h","f","s",":"," ","{">>

BTRFS_ANCHOR ==
    <<"E","x","t",".","d","e","f","i","n","e","(","'","P","V","E",".","s","t","o","r","a","g","e",".","B","T","R","F","S","I","n","p","u","t","P","a","n","e","l","'">>

(***************************************************************************)
(* str::lines, str::trim, str::starts_with, str::contains, [String]::join  *)
(***************************************************************************)

\* char::is_whitespace, over the ASCII characters a TLA+ string can hold
IsWhitespace(c) == c \in {" ", "\t", "\n", "\f", "\r"}

\* one piece of split_inclusive('\n') without its "\n", and without the
\* "\r" before that "\n"; a "\r" that no "\n" follows stays
StripTerminator(piece) ==
    IF piece # <<>> /\ piece[Len(piece)] = "\n"
    THEN LET noLF == SubSeq(piece, 1, Len(piece) - 1)
         IN  IF noLF # <<>> /\ noLF[Len(noLF)] = "\r"
             THEN SubSeq(noLF, 1, Len(noLF) - 1)
             ELSE noLF
    ELSE piece

\* str::lines: the pieces that end at each "\n" (a last piece may have none;
\* an empty rest yields no line), each stripped of its terminator.  The text
\* is cut at the "\n" nearest its middle, so that long texts nest shallowly.
RECURSIVE StrLines(_)
StrLines(s) ==
    IF s = <<>> THEN <<>>
    ELSE LET inner == {p \in 1..(Len(s) - 1) : s[p] = "\n"}
             Dist(p) == IF 2 * p >= Len(s) THEN 2 * p - Len(s) ELSE Len(s) - 2 * p
         IN  IF inner = {} THEN <<StripTerminator(s)>>
             ELSE LET m == CHOOSE p \in inner : \A q \in inner : Dist(p) <= Dist(q)
                  IN  StrLines(SubSeq(s, 1, m)) \o StrLines(SubSeq(s, m + 1, Len(s)))

\* str::trim: without leading and trailing whitespace
StrTrim(s) ==
    LET keep == {p \in 1..Len(s) : ~IsWhitespace(s[p])}
    IN  IF keep = {} THEN <<>>
        ELSE SubSeq(s, CHOOSE p \in keep : \A q \in keep : p <= q,
                       CHOOSE p \in keep : \A q \in keep : q <= p)

\* str::starts_with
StartsWith(s, prefix) ==
    /\ Len(prefix) <= Len(s)
    /\ SubSeq(s, 1, Len(prefix)) = prefix

\* str::contains
Contains(s, pat) ==
    \E p \in 1..(Len(s) - Len(pat) + 1) : SubSeq(s, p, p + Len(pat) - 1) = pat

\* a bug: every line written with its terminator, the last one too
RECURSIVE Join_Terminated(_, _)
Join_Terminated(ls, sep) ==
    IF ls = <<>> THEN <<>>
    ELSE IF Len(ls) = 1 THEN ls[1] \o sep
    ELSE LET h == Len(ls) \div 2
         IN  Join_Terminated(SubSeq(ls, 1, h), sep)
                 \o Join_Terminated(SubSeq(ls, h + 1, Len(ls)), sep)

\* [String]::join: sep between consecutive elements, none after the last
\* (halved, so that long lists nest shallowly)
RECURSIVE Join(_, _)
Join(ls, sep) ==
    IF ls = <<>> THEN <<>>
    ELSE IF Len(ls) = 1 THEN ls[1]
    ELSE LET h == Len(ls) \div 2
         IN  (Join(SubSeq(ls, 1, h), sep) \o sep) \o Join(SubSeq(ls, h + 1, Len(ls)), sep)

\* STORAGE_TYPES_ADDITION.lines() and MOOSEFS_UI_PANEL.lines()
StorageTypesLines == StrLines(STORAGE_TYPES_ADDITION)
PanelLines == StrLines(MOOSEFS_UI_PANEL)

\* a bug: the anchor looked for anywhere in the line
IsCephfsLine_Anywhere(line) == Contains(StrTrim(line), CEPHFS_ANCHOR)

\* line.trim().starts_with("cephfs: {")
IsCephfsLine(line) == StartsWith(StrTrim(line), CEPHFS_ANCHOR)

\* line.contains("Ext.define('PVE.storage.BTRFSInputPanel'")
IsBtrfsLine(line) == Contains(line, BTRFS_ANCHOR)

\* a bug of the intent "insert once": the payload only before the first
\* matching line (res already holds a copy when an earlier line matched)
PushStorageType_Once(res, line) ==
    IF /\ IsCephfsLine(line)
       /\ \A j \in 1..(Len(res) - Len(StorageTypesLines) + 1) :
             SubSeq(res, j, j + Len(StorageTypesLines) - 1) # StorageTypesLines
    THEN res \o StorageTypesLines
    ELSE res

\* the storage-type payload pushed before a cephfs line
PushStorageType(res, line) ==
    IF IsCephfsLine(line) THEN res \o StorageTypesLines ELSE res

\* a bug: the blank line after the panel forgotten
PushPanel_NoBlank(res, line) ==
    IF IsBtrfsLine(line) THEN res \o PanelLines ELSE res

\* the panel payload and the blank line pushed before a BTRFS panel line
PushPanel(res, line) ==
    IF IsBtrfsLine(line) THEN (res \o PanelLines) \o << <<>> >> ELSE res

\* a bug: the anchor line replaced by the payload instead of kept after it
LoopBody_Replaces(res, line) ==
    IF IsCephfsLine(line) \/ IsBtrfsLine(line)
    THEN PushPanel(PushStorageType(res, line), line)
    ELSE Append(res, line)

\* a bug: the two tests in the other order, the panel before the storage type
LoopBody_PanelFirst(res, line) ==
    Append(PushStorageType(PushPanel(res, line), line), line)

\* a bug: the payload put after the anchor line instead of before it
LoopBody_InsertsAfter(res, line) ==
    PushPanel(PushStorageType(Append(res, line), line), line)

\* one iteration of the while loop: both tests, then the line itself
LoopBody(res, line) ==
    Append(PushPanel(PushStorageType(res, line), line), line)

(***************************************************************************)
(* Bounds and inputs.                                                      *)
(***************************************************************************)

\* most lines of a document read from the clean package
MaxLines == 3

LF   == <<"\n">>
CRLF == <<"\r", "\n">>
CR   == <<"\r">>

\* the lines documents are made of: empty, plain, a cephfs anchor between
\* whitespace, a panel anchor in the middle of a line, a line that holds
\* both anchors, and a line that holds neither but nearly: a cephfs anchor
\* that is not at its start and a panel anchor cut short by one character
LineChoices ==
    { <<>>,
      <<"x">>,
      (<<" ">> \o CEPHFS_ANCHOR) \o <<"\t">>,
      (<<"x">> \o BTRFS_ANCHOR) \o <<"x">>,
      CEPHFS_ANCHOR \o BTRFS_ANCHOR,
      (<<"x">> \o CEPHFS_ANCHOR) \o SubSeq(BTRFS_ANCHOR, 1, Len(BTRFS_ANCHOR) - 1) }

\* how the lines of a document are terminated: <<between lines, at the end>>
Terminators ==
    { <<LF, <<>>>>, <<LF, LF>>, <<CRLF, <<>>>>, <<CRLF, CRLF>>, <<LF, CR>> }

\* a document: its lines, each but the last followed by the terminator sep,
\* the last by fin: nothing, a terminator or a bare carriage return
RECURSIVE Text(_, _, _)
Text(ls, sep, fin) ==
    IF ls = <<>> THEN fin
    ELSE IF Len(ls) = 1 THEN ls[1] \o fin
    ELSE (ls[1] \o sep) \o Text(Tail(ls), sep, fin)

DocsOf(n) ==
    { Text(ls, t[1], t[2]) : ls \in [1..n -> LineChoices], t \in Terminators }

\* what fs::read_to_string may return, for the patcher alone
Docs == UNION { DocsOf(n) : n \in 0..MaxLines }

\* what fs::read_to_string may return in a run of main
CleanFiles == DocsOf(0) \cup DocsOf(1)

(***************************************************************************)
(* State.                                                                  *)
(***************************************************************************)
VARIABLES
    pc,                \* the statement main (or apply_moosefs_changes) is at
    status,            \* exit status of each external command that has run
    out,               \* messages printed so far, in order
    clean_content,     \* main: clean_content; apply_moosefs_changes: content
    lines,             \* apply_moosefs_changes: lines
    result,            \* apply_moosefs_changes: result
    i,                 \* apply_moosefs_changes: i
    modified_content,  \* main: modified_content, the text returned
    modified_js,       \* content of pvemanagerlib.patched.js, once written
    patch_written,     \* pve-moosefs.patch has been written by this run
    exit_code          \* "running", "0" (main returned Ok) or "1" (Err)

vars == <<pc, status, out, clean_content, lines, result, i,
          modified_content, modified_js, patch_written, exit_code>>

patcherVars == <<clean_content, lines, result, i, modified_content>>

Commands == {"dpkg-query", "apt-get", "dpkg-deb", "diff", "patch"}

NotWritten == <<"<absent>">>

Init ==
    /\ pc = "check_installed"
    /\ status = [c \in Commands |-> "none"]
    /\ out = <<"banner">>
    /\ clean_content = <<>>
    /\ lines = <<>>
    /\ result = <<>>
    /\ i = 0
    /\ modified_content = <<>>
    /\ modified_js = NotWritten
    /\ patch_written = FALSE
    /\ exit_code = "running"

(***************************************************************************)
(* main                                                                    *)
(***************************************************************************)

\* `?` on an Err, or anyhow::bail!: main returns Err, the process exits 1
Abort ==
    /\ pc' = "aborted"
    /\ exit_code' = "1"

\* the step went through: on to the next statement
Goto(next, msgs) ==
    /\ pc' = next
    /\ out' = out \o msgs
    /\ exit_code' = exit_code

\* if !current_js.exists() { bail!(..) }
CheckInstalled ==
    /\ pc = "check_installed"
    /\ \E exists \in BOOLEAN :
         IF exists THEN Goto("dpkg_query", <<"found_installed">>)
         ELSE Abort /\ out' = out
    /\ UNCHANGED <<status, patcherVars, modified_js, patch_written>>

\* Command::new("dpkg-query")...output().context(..)?  The exit status is
\* not looked at; the version is whatever was written to stdout.
DpkgQuery ==
    /\ pc = "dpkg_query"
    /\ \/ /\ Abort                                   \* could not be started
          /\ UNCHANGED <<status, out>>
       \/ \E st \in {"0", "1"} :
            /\ status' = [status EXCEPT !["dpkg-query"] = st]
            /\ Goto("temp_dir", <<"version">>)
    /\ UNCHANGED <<patcherVars, modified_js, patch_written>>

\* TempDir::new().context(..)?
CreateTempDir ==
    /\ pc = "temp_dir"
    /\ \E ok \in BOOLEAN :
         IF ok THEN Goto("apt_download", <<"downloading">>)
         ELSE Abort /\ out' = out
    /\ UNCHANGED <<status, patcherVars, modified_js, patch_written>>

\* Command::new("apt-get")...output().context(..)?, then
\* if !download_result.status.success() { bail!(..) }
AptDownload ==
    /\ pc = "apt_download"
    /\ \/ /\ Abort                                   \* could not be started
          /\ UNCHANGED <<status, out>>
       \/ \E st \in {"0", "1"} :
            /\ status' = [status EXCEPT !["apt-get"] = st]
            /\ IF st = "0" THEN Goto("find_deb", <<>>)
               ELSE Abort /\ out' = out
    /\ UNCHANGED <<patcherVars, modified_js, patch_written>>

\* fs::read_dir(temp_path)? ... .find(..).context("No .deb file found")?
FindDeb ==
    /\ pc = "find_deb"
    /\ \E found \in {"read_dir_error", "no_deb", "deb"} :
         IF found = "deb" THEN Goto("create_extract_dir", <<"downloaded", "extracting">>)
         ELSE Abort /\ out' = out
    /\ UNCHANGED <<status, patcherVars, modified_js, patch_written>>

\* fs::create_dir(&extract_dir)?
CreateExtractDir ==
    /\ pc = "create_extract_dir"
    /\ \E ok \in BOOLEAN :
         IF ok THEN Goto("dpkg_deb", <<>>)
         ELSE Abort /\ out' = out
    /\ UNCHANGED <<status, patcherVars, modified_js, patch_written>>

\* Command::new("dpkg-deb")...output().context(..)?  The Output is dropped:
\* the exit status is not looked at.
DpkgDeb ==
    /\ pc = "dpkg_deb"
    /\ \/ /\ Abort                                   \* could not be started
          /\ UNCHANGED <<status, out>>
       \/ \E st \in {"0", "1"} :
            /\ status' = [status EXCEPT !["dpkg-deb"] = st]
            /\ Goto("check_clean", <<>>)
    /\ UNCHANGED <<patcherVars, modified_js, patch_written>>

\* if !clean_js.exists() { bail!(..) }  A dpkg-deb that failed may have
\* unpacked the file before it failed, or not.
CheckClean ==
    /\ pc = "check_clean"
    /\ \E exists \in BOOLEAN :
         IF exists THEN Goto("read_clean", <<"extracted">>)
         ELSE Abort /\ out' = out
    /\ UNCHANGED <<status, patcherVars, modified_js, patch_written>>

\* fs::read_to_string(&clean_js).context(..)?
ReadClean ==
    /\ pc = "read_clean"
    /\ \/ /\ Abort                          \* unreadable, or not UTF-8
          /\ UNCHANGED <<out, clean_content>>
       \/ \E doc \in CleanFiles :
            /\ clean_content' = doc
            /\ Goto("apply", <<"generating">>)
    /\ UNCHANGED <<status, lines, result, i, modified_content, modified_js,
                   patch_written>>

(***************************************************************************)
(* apply_moosefs_changes                                                   *)
(***************************************************************************)

\* let lines: Vec<&str> = content.lines().collect();
\* let mut result = Vec::new(); let mut i = 0;
Apply ==
    /\ pc = "apply"
    /\ lines' = StrLines(clean_content)
    /\ result' = <<>>
    /\ i' = 0
    /\ pc' = "loop"
    /\ UNCHANGED <<status, out, clean_content, modified_content, modified_js,
                   patch_written, exit_code>>

\* a bug: the index stepped by two, every other line skipped
LoopIter_SkipsLines ==
    /\ pc = "loop"
    /\ i < Len(lines)
    /\ result' = LoopBody(result, lines[i + 1])
    /\ i' = i + 2
    /\ UNCHANGED <<pc, status, out, clean_content, lines, modified_content,
                   modified_js, patch_written, exit_code>>

\* while i < lines.len() { let line = lines[i]; ...; i += 1; }
LoopIter ==
    /\ pc = "loop"
    /\ i < Len(lines)
    /\ result' = LoopBody(result, lines[i + 1])
    /\ i' = i + 1
    /\ UNCHANGED <<pc, status, out, clean_content, lines, modified_content,
                   modified_js, patch_written, exit_code>>

\* Ok(result.join("\n")), and the caller's `?` on it
LoopExit ==
    /\ pc = "loop"
    /\ ~(i < Len(lines))
    /\ modified_content' = Join(result, LF)
    /\ Goto("write_modified", <<>>)
    /\ UNCHANGED <<status, clean_content, lines, result, i, modified_js,
                   patch_written>>

(***************************************************************************)
(* main, continued                                                         *)
(***************************************************************************)

\* fs::write(&modified_js, &modified_content).context(..)?
WriteModified ==
    /\ pc = "write_modified"
    /\ \/ /\ Abort
          /\ UNCHANGED <<out, modified_js>>
       \/ /\ modified_js' = modified_content
          /\ Goto("diff", <<"created", "generating_patch">>)
    /\ UNCHANGED <<status, patcherVars, patch_written>>

\* Command::new("diff")...output().context(..)?  diff exits 0 when the files
\* are the same, 1 when they differ and 2 on trouble; the exit status is not
\* looked at.
Diff ==
    /\ pc = "diff"
    /\ \/ /\ Abort                                   \* could not be started
          /\ UNCHANGED <<status, out>>
       \/ \E st \in {"0", "1", "2"} :
            /\ status' = [status EXCEPT !["diff"] = st]
            /\ Goto("decode_diff", <<>>)
    /\ UNCHANGED <<patcherVars, modified_js, patch_written>>

\* String::from_utf8(diff_output.stdout).context(..)?
DecodeDiff ==
    /\ pc = "decode_diff"
    /\ \E utf8 \in BOOLEAN :
         IF utf8 THEN Goto("write_patch", <<>>)
         ELSE Abort /\ out' = out
    /\ UNCHANGED <<status, patcherVars, modified_js, patch_written>>

\* fs::write(&patch_path, patch_content).context(..)?
WritePatch ==
    /\ pc = "write_patch"
    /\ \/ /\ Abort
          /\ UNCHANGED <<out, patch_written>>
       \/ /\ patch_written' = TRUE
          /\ Goto("test_patch", <<"generated", "testing">>)
    /\ UNCHANGED <<status, patcherVars, modified_js>>

\* a bug: a patch that does not apply treated like the other failures
TestPatch_Fatal ==
    /\ pc = "test_patch"
    /\ \/ /\ Abort
          /\ UNCHANGED <<status, out>>
       \/ \E st \in {"0", "1"} :
            /\ status' = [status EXCEPT !["patch"] = st]
            /\ IF st = "0"
               THEN /\ out' = out \o <<"applies_cleanly", "complete">>
                    /\ pc' = "done"
                    /\ exit_code' = "0"
               ELSE Abort /\ out' = out
    /\ UNCHANGED <<patcherVars, modified_js, patch_written>>

\* Command::new("patch")...output().context(..)?, the report on its exit
\* status, the completion message and Ok(())
TestPatch ==
    /\ pc = "test_patch"
    /\ \/ /\ Abort                                   \* could not be started
          /\ UNCHANGED <<status, out>>
       \/ \E st \in {"0", "1"} :
            /\ status' = [status EXCEPT !["patch"] = st]
            /\ out' = out \o (IF st = "0" THEN <<"applies_cleanly">>
                                          ELSE <<"warning", "patch_stderr">>)
                          \o <<"complete">>
            /\ pc' = "done"
            /\ exit_code' = "0"
    /\ UNCHANGED <<patcherVars, modified_js, patch_written>>

Next ==
    \/ CheckInstalled
    \/ DpkgQuery
    \/ CreateTempDir
    \/ AptDownload
    \/ FindDeb
    \/ CreateExtractDir
    \/ DpkgDeb
    \/ CheckClean
    \/ ReadClean
    \/ Apply
    \/ LoopIter
    \/ LoopExit
    \/ WriteModified
    \/ Diff
    \/ DecodeDiff
    \/ WritePatch
    \/ TestPatch

Spec == Init /\ [][Next]_vars

(***************************************************************************)
(* apply_moosefs_changes alone, on every document of Docs.                 *)
(***************************************************************************)

\* main is about to call apply_moosefs_changes on one of docs
Called(docs) ==
    /\ pc = "apply"
    /\ status = [c \in Commands |-> "none"]
    /\ out = <<>>
    /\ clean_content \in docs
    /\ lines = <<>>
    /\ result = <<>>
    /\ i = 0
    /\ modified_content = <<>>
    /\ modified_js = NotWritten
    /\ patch_written = FALSE
    /\ exit_code = "running"

PatchInit == Called(Docs)

PatchNext ==
    \/ Apply
    \/ LoopIter
    \/ LoopExit

PatchSpec == PatchInit /\ [][PatchNext]_vars

(***************************************************************************)
(* apply_moosefs_changes run to its end: the program is single-threaded    *)
(* and nothing else is scheduled, so a step that can be taken is taken.    *)
(* The documents are made of two kinds of line only.                       *)
(***************************************************************************)

\* most lines of a document when termination is checked
MaxFairLines == 3

FairDocs ==
    UNION { { Text(ls, LF, fin) :
                ls \in [1..n -> {<<"x">>, CEPHFS_ANCHOR}],
                fin \in {<<>>, LF} } : n \in 0..MaxFairLines }

FairPatchInit == Called(FairDocs)

FairPatchSpec == FairPatchInit /\ [][PatchNext]_vars /\ WF_vars(PatchNext)

(***************************************************************************)
(* The claims.  D is the document as the patcher sees it (lines), the      *)
(* output is result once the function has returned; the anchors and the    *)
(* payloads are stated here as the specification states them.              *)
(***************************************************************************)

\* apply_moosefs_changes has returned to main
Returned == pc = "write_modified"

\* the line, trimmed, starts with `cephfs: {`
MatchesCephfs(l) == StartsWith(StrTrim(l), CEPHFS_ANCHOR)

\* the line contains `Ext.define('PVE.storage.BTRFSInputPanel'`
MatchesPanel(l) == Contains(l, BTRFS_ANCHOR)

CephfsAt(D) == {k \in 1..Len(D) : MatchesCephfs(D[k])}
PanelAt(D)  == {k \in 1..Len(D) : MatchesPanel(D[k])}

\* the two payloads: the storage-type block, and the panel block followed by
\* one empty line
StorageBlock == StrLines(STORAGE_TYPES_ADDITION)
PanelBlock   == StrLines(MOOSEFS_UI_PANEL) \o << <<>> >>

\* what may stand before a line of D
AnyCopies    == { <<>>, StorageBlock, PanelBlock,
                  StorageBlock \o PanelBlock, PanelBlock \o StorageBlock,
                  StorageBlock \o StorageBlock, PanelBlock \o PanelBlock }
StorageOnly  == { <<>>, StorageBlock }
OnePerMatch(l) ==
    IF MatchesCephfs(l) /\ MatchesPanel(l)
    THEN { StorageBlock \o PanelBlock, PanelBlock \o StorageBlock }
    ELSE IF MatchesCephfs(l) THEN { StorageBlock }
    ELSE IF MatchesPanel(l) THEN { PanelBlock }
    ELSE { <<>> }
Before(how, l) ==
    IF how = "any" THEN AnyCopies
    ELSE IF how = "storage" THEN StorageOnly
    ELSE OnePerMatch(l)

\* o is D with, before each line, one of the insertions `how` allows, and
\* nothing else
RECURSIVE IsInsertion(_, _, _)
IsInsertion(o, D, how) ==
    IF D = <<>> THEN o = <<>>
    ELSE \E g \in Before(how, D[1]) :
           /\ StartsWith(o, Append(g, D[1]))
           /\ IsInsertion(SubSeq(o, Len(g) + 2, Len(o)), Tail(D), how)

\* where line k of D stands in the output when every match inserts
Pos(D, k) ==
    k + 6 * Cardinality({j \in CephfsAt(D) : j <= k})
      + (105 + 1) * Cardinality({j \in PanelAt(D) : j <= k})

\* the places of o where a copy of block starts
CopiesAt(o, block) ==
    {j \in 1..(Len(o) - Len(block) + 1) : SubSeq(o, j, j + Len(block) - 1) = block}

\* C1: pure insertion.  After every iteration the output so far is the lines
\* read so far, unmodified and in order, with nothing between them but whole
\* copies of the two payloads; so the returned output, with the inserted
\* copies removed, is D.
C1_PureInsertion ==
    /\ pc = "loop" => IsInsertion(result, SubSeq(lines, 1, i), "any")
    /\ Returned => IsInsertion(result, lines, "any")

C1_Witness ==
    /\ Returned
    /\ Len(lines) = 3
    /\ CephfsAt(lines) # {} /\ PanelAt(lines) # {}
    /\ Len(result) > Len(lines)

\* C2: no anchor, no change.  A document without a line that matches either
\* anchor (the empty document too) is returned line for line; a document
\* without a line that matches the panel anchor gets no panel payload: all
\* that is inserted is storage-type blocks.
C2_NoAnchorNoChange ==
    Returned =>
        /\ (CephfsAt(lines) = {} /\ PanelAt(lines) = {}) => result = lines
        /\ PanelAt(lines) = {} => IsInsertion(result, lines, "storage")

C2_Witness ==
    /\ Returned
    /\ Len(lines) = 3
    /\ CephfsAt(lines) = {} /\ PanelAt(lines) = {}
    /\ \E k \in 1..3 : Contains(lines[k], CEPHFS_ANCHOR)
    /\ \E k \in 1..3 : Contains(lines[k], SubSeq(BTRFS_ANCHOR, 1, Len(BTRFS_ANCHOR) - 1))
    /\ result = lines

\* C3: placement at a single match.  When one rule matches exactly one line,
\* line k, and the other rule matches none (the patch of D by that rule
\* alone), the output is the lines before k, the rule's payload, then line k
\* and the lines after it: len(D) + len(payload) lines.  When each rule
\* matches exactly one line and the two lines differ, each payload stands
\* immediately before its own anchor line and every line of D is in the
\* output, in order.
C3_SingleMatch ==
    Returned =>
        LET n  == Len(lines)
            cs == CephfsAt(lines)
            ps == PanelAt(lines)
            Spliced(k, payload) ==
                (SubSeq(lines, 1, k - 1) \o payload) \o SubSeq(lines, k, n)
        IN  /\ \A k \in 1..n :
                  /\ (cs = {k} /\ ps = {}) =>
                        /\ result = Spliced(k, StorageBlock)
                        /\ Len(result) = n + 6
                  /\ (ps = {k} /\ cs = {}) =>
                        /\ result = Spliced(k, PanelBlock)
                        /\ Len(result) = n + 105 + 1
            /\ \A kc, kp \in 1..n :
                  (cs = {kc} /\ ps = {kp} /\ kc # kp) =>
                        /\ Len(result) = n + 6 + 105 + 1
                        /\ \A k \in 1..n : result[Pos(lines, k)] = lines[k]
                        /\ SubSeq(result, Pos(lines, kc) - 6, Pos(lines, kc) - 1)
                               = StorageBlock
                        /\ SubSeq(result, Pos(lines, kp) - 106, Pos(lines, kp) - 1)
                               = PanelBlock

C3_Witness ==
    /\ Returned
    /\ Len(lines) = 3
    /\ CephfsAt(lines) = {3} /\ PanelAt(lines) = {2}
    /\ Len(result) = 3 + 6 + 106
    /\ result[1] = lines[1]

\* C4, as claimed: each rule fires at most once per run, so the output holds
\* at most one copy of each payload however often an anchor line occurs.
C4_AtMostOnce ==
    Returned =>
        /\ Cardinality(CopiesAt(result, StorageBlock)) <= 1
        /\ Cardinality(CopiesAt(result, PanelBlock)) <= 1

\* C4, amended: each rule fires once per matching line, not once per run.
\* Every line of D that matches an anchor, the first such line and every
\* later one, has one copy of the payload inserted before it (the panel block
\* immediately before the line, the storage-type block immediately before
\* the line or before the panel block of the same line), and nothing is
\* inserted anywhere else; so a payload is inserted at most once only when
\* its anchor occurs at most once.
C4_OncePerOccurrence ==
    Returned =>
        LET n  == Len(lines)
            cs == CephfsAt(lines)
            ps == PanelAt(lines)
        IN  /\ Len(result) = IF n = 0 THEN 0 ELSE Pos(lines, n)
            /\ \A k \in 1..n : result[Pos(lines, k)] = lines[k]
            /\ \A k \in ps :
                  SubSeq(result, Pos(lines, k) - 106, Pos(lines, k) - 1) = PanelBlock
            /\ \A k \in cs :
                  LET at == Pos(lines, k) - (IF k \in ps THEN 106 ELSE 0)
                  IN  SubSeq(result, at - 6, at - 1) = StorageBlock

C4_Witness ==
    /\ Returned
    /\ Len(lines) = 3
    /\ CephfsAt(lines) = {1, 3}
    /\ PanelAt(lines) = {2, 3}
    /\ Cardinality(CopiesAt(result, StorageBlock)) = 2
    /\ Cardinality(CopiesAt(result, PanelBlock)) = 2

\* C8: repeat per occurrence.  What is inserted before a line depends on that
\* line alone: the output is D with, before each line, one copy of the
\* payload of each rule the line matches and nothing before the other lines.
\* With c cephfs lines and b panel lines that is c storage-type blocks and b
\* panel blocks inserted, and len(D) + 6*c + (105+1)*b lines in all.
C8_RepeatPerOccurrence ==
    Returned =>
        LET c == Cardinality(CephfsAt(lines))
            b == Cardinality(PanelAt(lines))
        IN  /\ IsInsertion(result, lines, "matches")
            /\ Len(result) = Len(lines) + 6 * c + (105 + 1) * b

C8_Witness ==
    /\ Returned
    /\ Cardinality(CephfsAt(lines)) = 3
    /\ Cardinality(PanelAt(lines)) = 2
    /\ Len(result) = 3 + 6 * 3 + 106 * 2

\* C9: fixed order on a double match.  Before a line that matches both
\* anchors the output has the whole storage-type block, then the whole panel
\* block, then one empty line, then the line itself, with nothing in between.
C9_DoubleMatchOrder ==
    Returned =>
        \A k \in CephfsAt(lines) \cap PanelAt(lines) :
            LET at == Pos(lines, k)
            IN  /\ at - 112 >= 1
                /\ SubSeq(result, at - 112, at - 107) = StorageBlock
                /\ SubSeq(result, at - 106, at - 2) = StrLines(MOOSEFS_UI_PANEL)
                /\ result[at - 1] = <<>>
                /\ result[at] = lines[k]

C9_Witness ==
    /\ Returned
    /\ Len(lines) = 3
    /\ CephfsAt(lines) \cap PanelAt(lines) = {2}
    /\ CephfsAt(lines) = {1, 2}
    /\ SubSeq(result, 8, 13) = StorageBlock
    /\ result[8 + 112] = lines[2]

\* a text split at every "\n", the pieces without it (the inverse of join
\* for lines that hold no "\n")
RECURSIVE SplitAtLF(_)
SplitAtLF(t) ==
    LET nl == {p \in 1..Len(t) : t[p] = "\n"}
        Dist(p) == IF 2 * p >= Len(t) THEN 2 * p - Len(t) ELSE Len(t) - 2 * p
    IN  IF nl = {} THEN <<t>>
        ELSE LET m == CHOOSE p \in nl : \A q \in nl : Dist(p) <= Dist(q)
             IN  SplitAtLF(SubSeq(t, 1, m - 1)) \o SplitAtLF(SubSeq(t, m + 1, Len(t)))

EndsWithLF(t) == t # <<>> /\ t[Len(t)] = "\n"

\* the returned text is the output lines with one "\n" between consecutive
\* lines and none after the last
IsJoined(t, ls) == IF ls = <<>> THEN t = <<>> ELSE SplitAtLF(t) = ls

\* the returned text equals the input only when the input has no anchor
\* line, no "\r\n" terminator and no newline at its end
SameOnlyWhenPlain ==
    modified_content = clean_content =>
        /\ CephfsAt(lines) = {} /\ PanelAt(lines) = {}
        /\ ~Contains(clean_content, CRLF)
        /\ ~EndsWithLF(clean_content)

\* C10, as claimed: besides the above, an input that ends with a newline
\* yields a returned text that does not.
C10_NoFinalNewline ==
    Returned =>
        /\ IsJoined(modified_content, result)
        /\ SameOnlyWhenPlain
        /\ EndsWithLF(clean_content) => ~EndsWithLF(modified_content)

\* C10, amended: the returned text is the output lines joined by "\n", with
\* no terminator after the last line; it equals the input only when the
\* input has no anchor line, no "\r\n" and no final newline; and an input
\* that ends with a newline yields a returned text that ends with a newline
\* only when the last line of the input is empty and not its only line (the
\* input ends with two line terminators): the "\n" then is the separator
\* before that empty last line.
C10_TextResult ==
    Returned =>
        /\ IsJoined(modified_content, result)
        /\ SameOnlyWhenPlain
        /\ EndsWithLF(clean_content) =>
              (EndsWithLF(modified_content)
                  <=> (Len(lines) >= 2 /\ lines[Len(lines)] = <<>>))

C10_Witness ==
    /\ Returned
    /\ EndsWithLF(clean_content)
    /\ Contains(clean_content, CRLF)
    /\ Len(lines) = 2 /\ lines[2] = <<>> /\ lines[1] = <<"x">>
    /\ modified_content = <<"x", "\n">>

\* one step of the function: the call enters the loop with i = 0, an
\* iteration moves i on by exactly one and stays in the loop, and the loop is
\* left only at i = lines.len(), with Ok: main goes on, nothing is aborted
FunctionStep ==
    /\ pc = "apply" => (pc' = "loop" /\ i' = 0)
    /\ pc = "loop" =>
          \/ i < Len(lines) /\ i' = i + 1 /\ pc' = "loop"
          \/ i = Len(lines) /\ i' = i /\ pc' = "write_modified"
                /\ exit_code' = "running"

\* C5: totality and termination.  On every input the function visits line
\* after line, i going up by exactly one per iteration, leaves the loop at
\* i = number of lines, and returns Ok; no input, with or without an anchor,
\* makes it fail or run on forever.
C5_TotalAndTerminates ==
    /\ [][FunctionStep]_vars
    /\ [](pc # "aborted" /\ exit_code # "1")
    /\ <>(Returned /\ i = Len(lines) /\ Len(result) >= Len(lines))

C5_Witness ==
    /\ Returned
    /\ Len(lines) = 3
    /\ i = 3
    /\ CephfsAt(lines) = {} /\ PanelAt(lines) = {}
    /\ exit_code = "running"

\* a step before validation has failed: a command other than patch that ran
\* and exited with a failure status (for diff, 2: it exits 1 whenever the
\* files differ)
FailedBeforeValidation ==
    \/ status["dpkg-query"] \notin {"none", "0"}
    \/ status["apt-get"] \notin {"none", "0"}
    \/ status["dpkg-deb"] \notin {"none", "0"}
    \/ status["diff"] = "2"

\* C6: patch validation is non-fatal and comes last.  patch --dry-run runs
\* only once pve-moosefs.patch is written; when it runs and exits non-zero
\* the run prints the warning, then the completion message, and returns Ok
\* (exit 0), the patch file still there.
C6_ValidationNonFatal ==
    /\ (pc = "test_patch" \/ status["patch"] # "none") => patch_written
    /\ status["patch"] \notin {"none", "0"} =>
          /\ pc = "done"
          /\ exit_code = "0"
          /\ \E k \in 1..Len(out) : out[k] = "warning"
          /\ out[Len(out)] = "complete"

C6_Witness ==
    /\ status["patch"] = "1"
    /\ pc = "done"
    /\ exit_code = "0"
    /\ patch_written

\* C7: every failure before validation is fatal.  Once an external command
\* other than patch has exited with a failure status the run is aborted: no
\* later step runs and the exit code is not 0.
C7_FailuresAreFatal ==
    FailedBeforeValidation => (pc = "aborted" /\ exit_code = "1")

=============================================================================
